---- MODULE Spec2Model ----
(***************************************************************************)
(* A model of the federated GraphQL query planner of                       *)
(* graphql_query_planner/build_query_plan.py: field collection, field      *)
(* splitting into fetch groups, and plan-tree emission.                    *)
(***************************************************************************)
EXTENDS Integers, Sequences, FiniteSets, TLC

VARIABLES
    operation,  \* the client operation: [kind, sel]
    schema,     \* the federation metadata of the composed schema
    pc,         \* position of the run
    result,     \* outcome of build_query_plan: [status, node]
    heap,       \* the FetchGroup objects created by the run, by identity
    roots,      \* identities of the root groups returned by the splitter
    wrap        \* inputs and output of one flat_wrap experiment

vars == <<operation, schema, pc, result, heap, roots, wrap>>

(***************************************************************************)
(* Bounds of the model.                                                    *)
(***************************************************************************)
\* largest number of field nodes in a client operation
MaxNodes == 3
\* longest list of plan nodes handed to flat_wrap
MaxWrap == 3
\* most groups hoisted into the other_dependent_groups of one group
MaxHoisted == 2
\* most calls of dependent_group_for_service made on one group
MaxCalls == 3

\* most calls of get_internal_fragment made on one planning context
MaxFragmentCalls == 3

None == "None"
Services == {"A", "B"}

(***************************************************************************)
(* The shape of the composed schema: three root types with the same root   *)
(* fields, and one entity type T that refers to itself through a list.     *)
(***************************************************************************)
RootTypeNames == {"Query", "Mutation", "Subscription"}

RootTypeOf(kind) ==
    CASE kind = "query" -> "Query"
      [] kind = "mutation" -> "Mutation"
      [] OTHER -> "Subscription"

IsRootType(t) == t \in RootTypeNames

\* the fields a client may select on a type
LeafFields(t) == IF IsRootType(t) THEN {"r1", "r2", "__typename"} ELSE {"id", "name"}
CompositeFields(t) == IF IsRootType(t) THEN {"me"} ELSE {"peers"}

\* named return type of a field
NamedType(f) == IF f \in {"me", "peers"} THEN "T" ELSE "String"

\* wrappers of a field's return type, outermost first: peers is [T!]!
TypeWrappers(f) == IF f = "peers" THEN <<"NonNull", "List", "NonNull">> ELSE <<>>

IsCompositeType(t) == t \in {"T", "S", "I", "J", "U"} \/ IsRootType(t)

\* variables a field node refers to in its arguments
VariablesOf(f) == IF f \in {"r2", "name"} THEN <<"v">> ELSE <<>>

(***************************************************************************)
(* Client operations: every selection tree with at most MaxNodes fields.   *)
(***************************************************************************)
FieldNode(f, s) == [kind |-> "Field", name |-> f, sel |-> s]

RECURSIVE ItemsOfSize(_, _), SelsOfSize(_, _)
ItemsOfSize(t, k) ==
    IF k = 1
    THEN {FieldNode(f, <<>>) : f \in LeafFields(t)}
    ELSE UNION {{FieldNode(f, s) : s \in SelsOfSize(NamedType(f), k - 1)} :
                    f \in CompositeFields(t)}

SelsOfSize(t, k) ==
    IF k = 0
    THEN {<<>>}
    ELSE UNION {{<<i>> \o rest : i \in ItemsOfSize(t, j), rest \in SelsOfSize(t, k - j)} :
                    j \in 1..k}

SelectionSets(t) == UNION {SelsOfSize(t, k) : k \in 1..MaxNodes}

OperationKinds == {"query", "mutation", "subscription"}

\* names of the fields mentioned anywhere in a selection set
RECURSIVE Mentioned(_)
Mentioned(sel) ==
    IF sel = <<>>
    THEN {}
    ELSE {Head(sel).name} \cup Mentioned(Head(sel).sel) \cup Mentioned(Tail(sel))

(***************************************************************************)
(* Federation metadata, the data behind the planning context's accessors.  *)
(***************************************************************************)
KeyChoices == {<<>>, <<"__typename">>, <<"__typename", "id">>}
RequiresChoices == {<<>>, <<"tag">>}
ProvidesChoices == {<<>>, <<"name">>, <<"__typename", "id", "tag">>}
\* federation metadata of T: none, a value type, or an entity of a graph
TypeMetaChoices == {None, "value"} \cup Services

DefaultSchema ==
    [owner |-> [f \in {"r1", "r2", "me", "name", "peers"} |-> "A"],
     tmeta |-> "A",
     imeta |-> None,
     keys |-> [s \in Services |-> <<"__typename", "id">>],
     requires |-> <<>>,
     provides |-> <<>>]

(***************************************************************************)
(* Generic helpers of the utilities package.                               *)
(***************************************************************************)
\* The one element of a singleton set.  One({e : x \in {v}}) is e with x
\* naming the value of v, worked out once.
One(S) == CHOOSE x \in S : TRUE

RECURSIVE Concat(_)
Concat(ss) == IF ss = <<>> THEN <<>> ELSE Head(ss) \o Concat(Tail(ss))

\* polyfill.flat_map, given the results func(e) of the elements in order: every
\* func used here yields a list, so every result is spliced into the list
flat_map(results) == Concat(results)

\* utilities.array.group_by: a dict, kept as its items in insertion order
group_by(keys, iterable) ==
    LET firsts == SelectSeq([i \in 1..Len(keys) |->
                               [key |-> keys[i],
                                first |-> \A j \in 1..(i - 1) : keys[j] # keys[i]]],
                            LAMBDA e : e.first)
        Items(k) ==
            LET at == SelectSeq([i \in 1..Len(keys) |-> i], LAMBDA i : keys[i] = k)
            IN [n \in 1..Len(at) |-> iterable[at[n]]]
    IN [n \in 1..Len(firsts) |-> [key |-> firsts[n].key, items |-> Items(firsts[n].key)]]

(***************************************************************************)
(* Scopes, fields and field sets (field_set.py).                           *)
(***************************************************************************)
Scope(t, ptypes) == [parent_type |-> t, possible_types |-> ptypes]

Field(scope, field_node, field_def) ==
    [scope |-> scope, field_node |-> field_node, field_def |-> field_def]

get_response_name(node) == node.name

\* matches_field that finds no provided field
matches_field_never(field, other_field) == FALSE

matches_field(field, other_field) == field.field_def.name = other_field.field_def.name

group_by_response_name(fields) ==
    group_by([i \in 1..Len(fields) |-> get_response_name(fields[i].field_node)], fields)

group_by_parent_type(fields) ==
    group_by([i \in 1..Len(fields) |-> fields[i].scope.parent_type], fields)

\* T is an object type, I an interface that T implements, U a union holding T
IsObjectType(t) == t \in {"T", "S"} \/ IsRootType(t)
IsInterfaceType(t) == t \in {"I", "J"}
IsUnionType(t) == t = "U"
IsAbstractType(t) == IsInterfaceType(t) \/ IsUnionType(t)
\* T implements I and J and is the member of U; S implements J
PossibleTypes(t) ==
    CASE t = "J" -> {"T", "S"}
      [] IsAbstractType(t) /\ t # "J" -> {"T"}
      [] OTHER -> {t}

(***************************************************************************)
(* The planning context's accessors over the schema.                       *)
(***************************************************************************)
new_scope(parent_type) == Scope(parent_type, PossibleTypes(parent_type))

new_scope_in(parent_type, enclosing_scope) ==
    Scope(parent_type, PossibleTypes(parent_type) \cap enclosing_scope.possible_types)

FieldDef(parent_type, field_name) == [name |-> field_name, on |-> parent_type]

\* parent_type.fields: the fields an object or interface type defines
DefinedFields(t) ==
    CASE IsRootType(t) -> {"r1", "r2", "me"}
      [] t = "T" -> {"id", "name", "peers", "tag"}
      [] t = "S" -> {"id", "name", "tag"}
      [] IsInterfaceType(t) -> {"id", "name"}
      [] OTHER -> {}

\* QueryPlanningContext.get_field_def over utilities.graphql_.get_field_def:
\* the meta fields first, then a subscript into parent_type.fields for an
\* object or interface, and None (turned into the GraphQLError) for a union
get_field_def(parent_type, field_name) ==
    LET found == [err |-> "none", def |-> FieldDef(parent_type, field_name)]
    IN IF field_name \in {"__schema", "__type"} /\ parent_type = "Query" THEN found
       ELSE IF field_name = "__typename" /\ IsCompositeType(parent_type) THEN found
       ELSE IF IsObjectType(parent_type) \/ IsInterfaceType(parent_type)
       THEN IF field_name \in DefinedFields(parent_type)
            THEN found
            ELSE [found EXCEPT !.err = "KeyError"]
       ELSE [found EXCEPT !.err = "GraphQLError"]

TypeMeta(parent_type) ==
    CASE parent_type = "T" -> schema.tmeta
      [] parent_type = "S" -> "B"
      [] IsAbstractType(parent_type) -> schema.imeta
      [] OTHER -> None

\* field.extensions.get('federation'): a field has the entry when the schema
\* records a graph for it
get_federation_metadata_for_field(field_def) ==
    IF field_def.name \in DOMAIN schema.owner THEN "federation" ELSE None

get_base_service(parent_type) ==
    IF TypeMeta(parent_type) \in Services THEN TypeMeta(parent_type) ELSE None

get_owning_service(parent_type, field_def) ==
    IF field_def.name \in DOMAIN schema.owner
    THEN schema.owner[field_def.name]
    ELSE get_base_service(parent_type)

KeyField(parent_type, name) ==
    Field(new_scope(parent_type), FieldNode(name, <<>>), FieldDef(parent_type, name))

get_key_fields(parent_type, service_name) ==
    [i \in 1..Len(schema.keys[service_name]) |->
        KeyField(parent_type, schema.keys[service_name][i])]

get_required_fields(parent_type, field_def, service_name) ==
    get_key_fields(parent_type, service_name)
        \o (IF field_def.name = "name"
            THEN [i \in 1..Len(schema.requires) |-> KeyField(parent_type, schema.requires[i])]
            ELSE <<>>)

get_provided_fields(field_def, service_name) ==
    [i \in 1..Len(schema.provides) |-> KeyField(NamedType(field_def.name), schema.provides[i])]

\* metadata.get_federation_metadata_for_type: None, or the type's metadata
get_federation_metadata_for_type(parent_type) == TypeMeta(parent_type)

(***************************************************************************)
(* collect_fields: the flat field list of a selection set.                 *)
(***************************************************************************)
FragmentSpread(fragment_name) == [kind |-> "FragmentSpread", name |-> fragment_name]

InlineFragment(type_condition, selections) ==
    [kind |-> "InlineFragment", on |-> type_condition, sel |-> selections]

\* context.fragments: the fragment definitions of the document, by name
FragmentNames == {"OnT", "OnI", "OnQuery"}

Fragments(fragment_name) ==
    CASE fragment_name = "OnT" -> InlineFragment("T", <<FieldNode("id", <<>>)>>)
      [] fragment_name = "OnI" ->
             InlineFragment("I", <<FieldNode("name", <<>>), FragmentSpread("OnT")>>)
      [] fragment_name = "OnQuery" -> InlineFragment("Query", <<FieldNode("r1", <<>>)>>)

\* collect_fields.  acc holds the fields list and the visited_fragment_names
\* dict that one pass shares, and the error raised, if any.  Line 790
\* subscripts the dict, a plain dict, with the name of the fragment: a
\* KeyError for a name that line 792 has not put in yet.
RECURSIVE collect_fields(_, _, _)
collect_fields(scope, selections, acc) ==
    IF selections = <<>> \/ acc.err # "none"
    THEN acc
    ELSE LET selection == Head(selections)
         IN IF selection.kind = "Field"
            THEN LET d == get_field_def(scope.parent_type, selection.name)
                 IN IF d.err # "none"
                    THEN [acc EXCEPT !.err = d.err]
                    ELSE collect_fields(scope, Tail(selections),
                             [acc EXCEPT !.fields = Append(@, Field(scope, selection, d.def))])
            ELSE IF selection.kind = "InlineFragment"
            THEN One({collect_fields(scope, Tail(selections), inner) :
                      inner \in {IF new_scope_in(selection.on, scope).possible_types = {}
                                 THEN acc
                                 ELSE collect_fields(new_scope_in(selection.on, scope),
                                                     selection.sel, acc)}})
            ELSE IF selection.name \notin FragmentNames
            THEN [acc EXCEPT !.err = "KeyError"]
            ELSE LET fragment == Fragments(selection.name)
                     fragment_scope == new_scope_in(fragment.on, scope)
                 IN IF fragment_scope.possible_types = {}
                    THEN collect_fields(scope, Tail(selections), acc)
                    ELSE IF selection.name \notin DOMAIN acc.visited
                    THEN [acc EXCEPT !.err = "KeyError"]
                    ELSE IF acc.visited[selection.name]
                    THEN collect_fields(scope, Tail(selections), acc)
                    ELSE One({collect_fields(scope, Tail(selections), inner) :
                              inner \in {collect_fields(fragment_scope, fragment.sel,
                                            [acc EXCEPT !.visited =
                                                (selection.name :> TRUE) @@ @])}})

NoFields == [fields |-> <<>>, visited |-> <<>>, err |-> "none"]

\* collect_subfields: the children of all same-response-name fields, collected
\* against the composite return type
RECURSIVE collect_subfields(_, _, _)
collect_subfields(return_type, fields, acc) ==
    IF fields = <<>>
    THEN acc
    ELSE collect_subfields(return_type, Tail(fields),
             collect_fields(new_scope(return_type), Head(fields).field_node.sel, acc))

(***************************************************************************)
(* Fetch groups.  The heap is the sequence of the FetchGroup objects made  *)
(* so far; a group's identity is its index.                                *)
(***************************************************************************)
\* FetchGroup.__init__ (merge_at None is the empty path)
FetchGroup(service_name) ==
    [service_name |-> service_name,
     fields |-> <<>>,
     required_fields |-> <<>>,
     provided_fields |-> <<>>,
     merge_at |-> <<>>,
     by_service |-> <<>>,
     other_dependent_groups |-> <<>>,
     internal_fragments |-> {}]

\* FetchGroup.dependent_groups that leaves out the hoisted groups
dependent_groups_map_only(h, g) ==
    [i \in 1..Len(h[g].by_service) |-> h[g].by_service[i].group]

\* FetchGroup.dependent_groups
dependent_groups(h, g) ==
    [i \in 1..Len(h[g].by_service) |-> h[g].by_service[i].group]
        \o h[g].other_dependent_groups

\* dependent_group_for_service that records the requirement on the group it is
\* called on instead of on the child
dependent_group_for_service_on_self(h, g, service_name, required_fields, same_object) ==
    LET found == SelectSeq(h[g].by_service, LAMBDA e : e.service = service_name)
        group == IF found = <<>> THEN Len(h) + 1 ELSE found[1].group
        h1 == IF found = <<>>
              THEN [Append(h, [FetchGroup(service_name) EXCEPT !.merge_at = h[g].merge_at])
                       EXCEPT ![g].by_service =
                                  Append(@, [service |-> service_name, group |-> group])]
              ELSE h
    IN [heap |-> IF required_fields # <<>>
                 THEN [h1 EXCEPT ![g].required_fields = @ \o required_fields,
                                 ![g].fields = @ \o required_fields]
                 ELSE h1,
        group |-> group]

\* dependent_group_for_service that leaves the fields of the group it is called
\* on as they are
dependent_group_for_service_child_only(h, g, service_name, required_fields, same_object) ==
    LET found == SelectSeq(h[g].by_service, LAMBDA e : e.service = service_name)
        group == IF found = <<>> THEN Len(h) + 1 ELSE found[1].group
        h1 == IF found = <<>>
              THEN [Append(h, [FetchGroup(service_name) EXCEPT !.merge_at = h[g].merge_at])
                       EXCEPT ![g].by_service =
                                  Append(@, [service |-> service_name, group |-> group])]
              ELSE h
    IN [heap |-> IF required_fields # <<>>
                 THEN [h1 EXCEPT ![group].required_fields = @ \o required_fields]
                 ELSE h1,
        group |-> group]

\* dependent_group_for_service whose new child does not take over merge_at
dependent_group_for_service_no_merge_at(h, g, service_name, required_fields, same_object) ==
    LET found == SelectSeq(h[g].by_service, LAMBDA e : e.service = service_name)
        group == IF found # <<>> THEN found[1].group ELSE Len(h) + 1
        h1 == IF found # <<>> THEN h
              ELSE [Append(h, FetchGroup(service_name))
                       EXCEPT ![g].by_service =
                                  Append(@, [service |-> service_name, group |-> group])]
    IN [heap |-> IF required_fields # <<>>
                 THEN [h1 EXCEPT ![group].required_fields = @ \o required_fields,
                                 ![g].fields = @ \o required_fields]
                 ELSE h1,
        group |-> group]

\* dependent_group_for_service that makes a new child on every call
dependent_group_for_service_no_map(h, g, service_name, required_fields, same_object) ==
    LET group == Len(h) + 1
        h1 == [Append(h, [FetchGroup(service_name) EXCEPT !.merge_at = h[g].merge_at])
                  EXCEPT ![g].by_service =
                             Append(@, [service |-> service_name, group |-> group])]
    IN [heap |-> IF required_fields # <<>>
                 THEN [h1 EXCEPT ![group].required_fields = required_fields,
                                 ![g].fields = @ \o required_fields]
                 ELSE h1,
        group |-> group]

\* FetchGroup.dependent_group_for_service.  required_fields is the value of the
\* list passed; same_object tells that this list is the very list object the
\* child already holds as its required_fields (line 868 keeps the caller's
\* list, it does not copy it), in which case line 866 extends the list with
\* itself, and line 870 reads it at twice its length.
dependent_group_for_service(h, g, service_name, required_fields, same_object) ==
    LET found == SelectSeq(h[g].by_service, LAMBDA e : e.service = service_name)
        group == IF found = <<>> THEN Len(h) + 1 ELSE found[1].group
        h1 == IF found = <<>>
              THEN [Append(h, [FetchGroup(service_name) EXCEPT !.merge_at = h[g].merge_at])
                       EXCEPT ![g].by_service =
                                  Append(@, [service |-> service_name, group |-> group])]
              ELSE h
        h2 == IF required_fields # <<>>
              THEN [h1 EXCEPT
                       ![group].required_fields =
                           IF @ # <<>> THEN @ \o required_fields ELSE required_fields,
                       ![g].fields =
                           @ \o (IF same_object
                                 THEN required_fields \o required_fields
                                 ELSE required_fields)]
              ELSE h1
    IN [heap |-> h2, group |-> group]

(***************************************************************************)
(* The state threaded through splitting: the heap, the splitter's list of  *)
(* root groups, the error raised (if any), and the value last returned.    *)
(***************************************************************************)
NoField == Field(Scope(None, {}), FieldNode(None, <<>>), FieldDef(None, None))

\* QueryPlanningContext.__init__: an empty fragment table and a counter at 0
QueryPlanningContext(auto_fragmentization) ==
    [auto_fragmentization |-> auto_fragmentization,
     internal_fragments |-> <<>>,
     internal_fragment_count |-> 0]

\* build_query_planning_context: options None stands for auto_fragmentization=False
build_query_planning_context(options) == QueryPlanningContext(options = "on")

\* The selection sets Python's hash() cannot tell apart in this run: hash() of
\* a node is a value hash of bounded width, so equal selection sets share a
\* value and unequal ones may.  Each class holds the sets of one hash value;
\* a selection set in no class has a value of its own.
HashClasses == IF "hashes" \in DOMAIN wrap THEN wrap.hashes ELSE {}

\* str(hash(selection_set))
hash(selection_set) ==
    LET same == {c \in HashClasses : selection_set \in c}
    IN IF same = {} THEN {selection_set} ELSE One(same)

\* get_internal_fragment: the table entry under the selection set's hash key,
\* made first, and named by the counter, when the key is not in the table
get_internal_fragment(context, selection_set, return_type) ==
    LET key == hash(selection_set)
        found == SelectSeq(context.internal_fragments, LAMBDA e : e.key = key)
        name == "__QueryPlanFragment_" \o ToString(context.internal_fragment_count)
        made == [key |-> key,
                 name |-> name,
                 definition |-> [kind |-> "FragmentDefinition",
                                 name |-> name,
                                 type_condition |-> return_type,
                                 selection_set |-> selection_set],
                 selection_set |-> <<FragmentSpread(name)>>]
    IN IF found = <<>>
       THEN [context |-> [context EXCEPT
                             !.internal_fragment_count = @ + 1,
                             !.internal_fragments = Append(@, made)],
             fragment |-> made]
       ELSE [context |-> context, fragment |-> found[1]]

SplitState(h, r) ==
    [heap |-> h, roots |-> r, err |-> "none", group |-> 0, field |-> NoField,
     context |-> build_query_planning_context(operation.options),
     calls |-> <<>>]

Raise(st, e) == [st EXCEPT !.err = e]

\* group_for_service that never finds the group it made earlier
group_for_service_no_reuse(st, service_name) ==
    [st EXCEPT !.heap = Append(@, FetchGroup(service_name)),
               !.roots = Append(@, Len(st.heap) + 1),
               !.group = Len(st.heap) + 1]

\* split_root_fields.group_for_service
group_for_service(st, service_name) ==
    LET found == SelectSeq(st.roots, LAMBDA g : st.heap[g].service_name = service_name)
    IN IF found # <<>>
       THEN [st EXCEPT !.group = found[1]]
       ELSE [st EXCEPT !.heap = Append(@, FetchGroup(service_name)),
                       !.roots = Append(@, Len(st.heap) + 1),
                       !.group = Len(st.heap) + 1]

\* split_root_fields_serially.group_for_service: fetch_groups[-1] is read first
group_for_service_serially(st, service_name) ==
    IF st.roots = <<>>
    THEN Raise(st, "IndexError")
    ELSE LET previous_group == st.roots[Len(st.roots)]
         IN IF st.heap[previous_group].service_name = service_name
            THEN [st EXCEPT !.group = previous_group]
            ELSE [st EXCEPT !.heap = Append(@, FetchGroup(service_name)),
                            !.roots = Append(@, Len(st.heap) + 1),
                            !.group = Len(st.heap) + 1]

\* split_root_fields.group_for_field and split_root_fields_serially.group_for_field
root_group_for_field(st, serially, field) ==
    LET owning_service == get_owning_service(field.scope.parent_type, field.field_def)
    IN IF owning_service = None
       THEN Raise(st, "GraphQLError")
       ELSE IF serially
            THEN group_for_service_serially(st, owning_service)
            ELSE group_for_service(st, owning_service)

\* a call from split_subfields: the list passed was just made by an accessor
Dependent(st, g, service_name, required_fields) ==
    LET d == dependent_group_for_service(st.heap, g, service_name, required_fields, FALSE)
    IN [st EXCEPT !.heap = d.heap, !.group = d.group]

AllProvided(required_fields, provided_fields) ==
    \A i \in 1..Len(required_fields) :
        \E j \in 1..Len(provided_fields) : matches_field(required_fields[i], provided_fields[j])

\* split_subfields.group_for_field
sub_group_for_field(st, parent_group, field) ==
    LET parent_type == field.scope.parent_type
        pg == st.heap[parent_group]
        federation_metadata == get_federation_metadata_for_type(parent_type)
        parent_is_value_type ==
            IF federation_metadata # None
            THEN ~IsObjectType(parent_type) \/ federation_metadata = "value"
            ELSE FALSE
        base_service == IF parent_is_value_type
                        THEN pg.service_name
                        ELSE get_base_service(parent_type)
        owning_service == IF parent_is_value_type
                          THEN pg.service_name
                          ELSE get_owning_service(parent_type, field.field_def)
    IN IF base_service = None THEN Raise(st, "GraphQLError")
       ELSE IF owning_service = None THEN Raise(st, "GraphQLError")
       ELSE IF owning_service = base_service
       THEN IF \/ owning_service = pg.service_name
               \/ \E i \in 1..Len(pg.provided_fields) : matches_field(field, pg.provided_fields[i])
            THEN [st EXCEPT !.group = parent_group]
            ELSE LET own_keys == get_key_fields(parent_type, pg.service_name)
                     key_fields ==
                         IF \/ Len(own_keys) = 0
                            \/ (Len(own_keys) = 1 /\ own_keys[1].field_def.name = "__typename")
                         THEN get_key_fields(parent_type, owning_service)
                         ELSE own_keys
                 IN Dependent(st, parent_group, owning_service, key_fields)
       ELSE LET required_fields ==
                    get_required_fields(parent_type, field.field_def, owning_service)
            IN IF AllProvided(required_fields, pg.provided_fields)
               THEN IF owning_service = pg.service_name
                    THEN [st EXCEPT !.group = parent_group]
                    ELSE Dependent(st, parent_group, owning_service, required_fields)
               ELSE LET key_fields == get_key_fields(parent_type, pg.service_name)
                    IN IF key_fields = <<>>
                       THEN Raise(st, "GraphQLError")
                       ELSE IF base_service = pg.service_name
                       THEN Dependent(st, parent_group, owning_service, required_fields)
                       ELSE LET base_group ==
                                    Dependent(st, parent_group, base_service, key_fields)
                            IN Dependent(base_group, base_group.group,
                                         owning_service, required_fields)

\* the group_for_field callback handed to split_fields
group_for_field(st, mode, field) ==
    One({[g EXCEPT !.calls = Append(@, [field |-> field, group |-> g.group])] :
         g \in {IF mode.kind = "sub"
                THEN sub_group_for_field(st, mode.parent, field)
                ELSE root_group_for_field(st, mode.kind = "serial", field)}})

(***************************************************************************)
(* Selection sets made from field sets.                                    *)
(***************************************************************************)
\* combine_fields: the first field, with the children of all of them merged
combine_fields(fields) ==
    IF IsCompositeType(NamedType(fields[1].field_def.name))
    THEN [fields[1] EXCEPT !.field_node.sel =
             Concat([i \in 1..Len(fields) |-> fields[i].field_node.sel])]
    ELSE fields[1]

wrap_in_inline_fragment_if_needed(selections, type_condition, parent_type) ==
    IF type_condition = parent_type
    THEN selections
    ELSE <<InlineFragment(type_condition, selections)>>

\* make_selections that turns every field into a selection of its own
make_selections_no_combine(item, parent_type) ==
    wrap_in_inline_fragment_if_needed(
        [i \in 1..Len(item.items) |-> item.items[i].field_node],
        item.key, parent_type)

make_selections(item, parent_type) ==
    LET by_name == group_by_response_name(item.items)
    IN wrap_in_inline_fragment_if_needed(
           [i \in 1..Len(by_name) |-> combine_fields(by_name[i].items).field_node],
           item.key, parent_type)

selection_set_from_field_set(fields, parent_type) ==
    LET items == group_by_parent_type(fields)
    IN flat_map([i \in 1..Len(items) |-> make_selections(items[i], parent_type)])

\* add_path that starts a fresh path instead of extending the one it is given
add_path_no_prefix(path, response_name, wrappers) ==
    <<response_name>>
        \o [i \in 1..Len(SelectSeq(wrappers, LAMBDA w : w = "List")) |-> "@"]

\* add_path: the response name, then one "@" per list wrapper of the type
add_path(path, response_name, wrappers) ==
    path \o <<response_name>>
         \o [i \in 1..Len(SelectSeq(wrappers, LAMBDA w : w = "List")) |-> "@"]

(***************************************************************************)
(* split_fields and complete_field.                                        *)
(***************************************************************************)
\* the (response name, parent type) buckets of split_fields, in loop order
Buckets(fields) ==
    LET by_name == group_by_response_name(fields)
    IN Concat([n \in 1..Len(by_name) |->
                  LET by_type == group_by_parent_type(by_name[n].items)
                  IN [i \in 1..Len(by_type) |-> by_type[i].items]])

\* scope.possible_types in the order the loops go through it
TypeNames == <<"Query", "Mutation", "Subscription", "T", "S", "I", "J", "U">>

RuntimeTypes(scope) == SelectSeq(TypeNames, LAMBDA t : t \in scope.possible_types)

\* no field definition of a possible runtime type has federation metadata;
\* err is the error of a get_field_def that failed
possible_field_defs(scope, field) ==
    LET defs == [i \in 1..Len(RuntimeTypes(scope)) |->
                    get_field_def(RuntimeTypes(scope)[i], field.field_node.name)]
        failed == SelectSeq(defs, LAMBDA d : d.err # "none")
    IN [err |-> IF failed = <<>> THEN "none" ELSE failed[1].err,
        has_no_extending_field_defs |->
            \A i \in 1..Len(defs) : get_federation_metadata_for_field(defs[i].def) = None]

\* the loop that fills groups_by_runtime_parent_types: one group_for_field
\* per runtime type, the pairs in call order
RECURSIVE groups_by_runtime_parent_types(_, _, _, _)
groups_by_runtime_parent_types(st, mode, field, runtime_types) ==
    IF runtime_types = <<>> \/ st.err # "none"
    THEN [st |-> st, pairs |-> <<>>]
    ELSE LET runtime_parent_type == Head(runtime_types)
             d == get_field_def(runtime_parent_type, field.field_node.name)
         IN One({One({[st |-> rest.st,
                       pairs |-> <<[group |-> g.group, type |-> runtime_parent_type]>>
                                    \o rest.pairs] :
                      rest \in {groups_by_runtime_parent_types(
                                    g, mode, field, Tail(runtime_types))}}) :
                 g \in {IF d.err # "none"
                        THEN Raise(st, d.err)
                        ELSE group_for_field(st, mode,
                                Field(new_scope_in(runtime_parent_type, field.scope),
                                      field.field_node, d.def))}})

\* MultiMap.items() of a map whose add replaces the list of a key it has
multi_map_items_last_wins(pairs) ==
    SelectSeq(pairs, LAMBDA e :
        \A j \in 1..Len(pairs) :
            pairs[j].group = e.group =>
                \A k \in 1..Len(pairs) : pairs[k] = e => j <= k)

\* MultiMap.items(): the groups in the order they were first added, each
\* with its runtime types in the order they were added
multi_map_items(pairs) ==
    flat_map([i \in 1..Len(group_by([j \in 1..Len(pairs) |-> pairs[j].group], pairs)) |->
                group_by([j \in 1..Len(pairs) |-> pairs[j].group], pairs)[i].items])

RECURSIVE split_buckets(_, _, _, _), complete_field(_, _, _, _, _)
RECURSIVE complete_runtime_types(_, _, _, _, _)

split_fields(st, mode, path, fields) == split_buckets(st, mode, path, Buckets(fields))

\* split_subfields
split_subfields(st, path, fields, parent_group) ==
    split_fields(st, [kind |-> "sub", parent |-> parent_group], path, fields)

\* the field goes to the group that group_for_field returns for it
split_to_group(st, mode, path, fields) ==
    One({IF g.err # "none" THEN g
         ELSE One({IF c.err # "none" THEN c
                   ELSE [c EXCEPT !.heap[g.group].fields = Append(@, c.field)] :
                   c \in {complete_field(g, fields[1].scope, g.group, path, fields)}}) :
         g \in {group_for_field(st, mode, fields[1])}})

\* the field goes, once per runtime type, to the group of that runtime type
split_to_runtime_groups(st, mode, path, fields) ==
    One({IF by_type.st.err # "none" THEN by_type.st
         ELSE complete_runtime_types(by_type.st, fields[1].scope, path, fields,
                                     multi_map_items(by_type.pairs)) :
         by_type \in {groups_by_runtime_parent_types(st, mode, fields[1],
                                                     RuntimeTypes(fields[1].scope))}})

split_buckets(st, mode, path, buckets) ==
    IF buckets = <<>> \/ st.err # "none"
    THEN st
    ELSE LET fields_for_parent_type == Head(buckets)
             field == fields_for_parent_type[1]
             scope == field.scope
             parent_type == scope.parent_type
             defs == possible_field_defs(scope, field)
         IN IF field.field_def.name = "__typename" /\ parent_type \in RootTypeNames
            THEN split_buckets(st, mode, path, Tail(buckets))
            ELSE One({IF done.err # "none" THEN done
                      ELSE split_buckets(done, mode, path, Tail(buckets)) :
                      done \in {IF IsObjectType(parent_type)
                                   /\ parent_type \in scope.possible_types
                                THEN split_to_group(st, mode, path, fields_for_parent_type)
                                ELSE IF defs.err # "none" THEN Raise(st, defs.err)
                                ELSE IF defs.has_no_extending_field_defs
                                THEN split_to_group(st, mode, path, fields_for_parent_type)
                                ELSE split_to_runtime_groups(st, mode, path,
                                                             fields_for_parent_type)}})

\* group.fields.append(complete_field(...)) for the state complete_field left
split_completed(c, group) ==
    IF c.err # "none" THEN c ELSE [c EXCEPT !.heap[group].fields = Append(@, c.field)]

\* the loop over groups_by_runtime_parent_types.items(): the field goes into
\* its group once for each runtime type, with that type's field definition
complete_runtime_types(st, scope, path, fields, pairs) ==
    IF pairs = <<>> \/ st.err # "none"
    THEN st
    ELSE LET group == Head(pairs).group
             runtime_parent_type == Head(pairs).type
             d == get_field_def(runtime_parent_type, fields[1].field_node.name)
             fields_with_runtime_parent_type ==
                 [i \in 1..Len(fields) |-> [fields[i] EXCEPT !.field_def = d.def]]
         IN IF d.err # "none" THEN Raise(st, d.err)
            ELSE One({IF c.err # "none" THEN c
                      ELSE complete_runtime_types(c, scope, path, fields, Tail(pairs)) :
                      c \in {split_completed(
                                 complete_field(st, new_scope_in(runtime_parent_type, scope),
                                                group, path, fields_with_runtime_parent_type),
                                 group)}})

\* complete_field from line 676 on: the field with the subgroup's selection set,
\* or with a spread of its internal fragment; the subgroup's internal fragments
\* pass to the parent group
fragmentize(st, scope, parent_group, sub_group, field_node, field_def, selection_set) ==
    LET return_type == NamedType(field_def.name)
    IN IF st.context.auto_fragmentization /\ Len(st.heap[sub_group].fields) > 2
       THEN One({[st EXCEPT
                     !.context = internal.context,
                     !.heap[parent_group].internal_fragments =
                         (@ \cup {internal.fragment.definition})
                             \cup st.heap[sub_group].internal_fragments,
                     !.field = Field(scope,
                                     [field_node EXCEPT
                                         !.sel = internal.fragment.selection_set],
                                     field_def)] :
                 internal \in {get_internal_fragment(st.context, selection_set,
                                                     return_type)}})
       ELSE [st EXCEPT
                !.heap[parent_group].internal_fragments =
                    @ \cup st.heap[sub_group].internal_fragments,
                !.field = Field(scope, [field_node EXCEPT !.sel = selection_set],
                                field_def)]

complete_field(st, scope, parent_group, path, fields) ==
    LET field_node == fields[1].field_node
        field_def == fields[1].field_def
        return_type == NamedType(field_def.name)
    IN IF ~IsCompositeType(return_type)
       THEN [st EXCEPT !.field = Field(scope, field_node, field_def)]
       ELSE LET field_path == add_path(path, get_response_name(field_node),
                                       TypeWrappers(field_def.name))
                service == st.heap[parent_group].service_name
                sub_group == Len(st.heap) + 1
                st1 == [st EXCEPT !.heap = Append(@,
                           [FetchGroup(service) EXCEPT
                               !.merge_at = field_path,
                               !.provided_fields = get_provided_fields(field_def, service)])]
            IN One({IF sub_fields.err # "none" THEN Raise(st1, sub_fields.err)
                    ELSE One({IF st2.err # "none" THEN st2
                              ELSE fragmentize(
                                       [st2 EXCEPT
                                           !.heap[parent_group].other_dependent_groups =
                                               @ \o dependent_groups(st2.heap, sub_group)],
                                       scope, parent_group, sub_group, field_node, field_def,
                                       selection_set_from_field_set(
                                           st2.heap[sub_group].fields, return_type)) :
                              st2 \in {split_subfields(st1, field_path, sub_fields.fields,
                                                       sub_group)}}) :
                    sub_fields \in {collect_subfields(return_type, fields, NoFields)}})

\* split_root_fields and split_root_fields_serially
split_root_fields(fields, serially) ==
    split_fields(SplitState(<<>>, <<>>),
                 [kind |-> IF serially THEN "serial" ELSE "root", parent |-> 0],
                 <<>>, fields)

(***************************************************************************)
(* Plan emission.                                                          *)
(***************************************************************************)
Null == [null |-> TRUE]
NoNode == [kind |-> "None"]
ProgrammingError == [kind |-> "Exception"]

\* the members of a set in the order iteration gives them: one order per set
set_items(S) ==
    IF S = {} THEN <<>>
    ELSE One({q \in [1..Cardinality(S) -> S] : \A e \in S : \E i \in DOMAIN q : q[i] = e})

RECURSIVE VariablesIn(_)
VariablesIn(selections) ==
    IF selections = <<>>
    THEN <<>>
    ELSE (IF Head(selections).kind = "Field" THEN VariablesOf(Head(selections).name) ELSE <<>>)
            \o (IF Head(selections).kind = "FragmentSpread" THEN <<>>
                ELSE VariablesIn(Head(selections).sel))
            \o VariablesIn(Tail(selections))

\* QueryPlanningContext.get_variable_usages: name -> definition, in first-use order
get_variable_usages(selection_set, fragments) ==
    LET definitions == set_items(fragments)
        used == VariablesIn(selection_set)
                    \o flat_map([i \in 1..Len(definitions) |->
                                     VariablesIn(definitions[i].selection_set)])
        firsts == group_by(used, used)
    IN [i \in 1..Len(firsts) |-> [name |-> firsts[i].key, type |-> "String"]]

map_fetch_node_to_variable_definitions(variable_usages) == variable_usages

operation_for_root_fetch(selection_set, variable_usages, internal_fragments, operation_kind) ==
    [definitions |->
        <<[operation |-> operation_kind,
           selection_set |-> selection_set,
           variable_definitions |-> map_fetch_node_to_variable_definitions(variable_usages)]>>
            \o set_items(internal_fragments)]

\* operation_for_entities_fetch that chains the variable definitions the other way round
operation_for_entities_fetch_last(selection_set, variable_usages, internal_fragments) ==
    [definitions |->
        <<[operation |-> "query",
           variable_definitions |->
               map_fetch_node_to_variable_definitions(variable_usages)
                   \o <<[name |-> "representations", type |-> "[_Any!]!"]>>,
           selection_set |->
               <<[kind |-> "Field",
                  name |-> "_entities",
                  arguments |-> <<[name |-> "representations",
                                   value |-> "$representations"]>>,
                  sel |-> selection_set]>>]>>
            \o set_items(internal_fragments)]

operation_for_entities_fetch(selection_set, variable_usages, internal_fragments) ==
    [definitions |->
        <<[operation |-> "query",
           variable_definitions |->
               <<[name |-> "representations", type |-> "[_Any!]!"]>>
                   \o map_fetch_node_to_variable_definitions(variable_usages),
           selection_set |->
               <<[kind |-> "Field",
                  name |-> "_entities",
                  arguments |-> <<[name |-> "representations",
                                   value |-> "$representations"]>>,
                  sel |-> selection_set]>>]>>
            \o set_items(internal_fragments)]

\* query_plan.trim_selection_nodes: the selection tree without AST detail
RECURSIVE trim_selection_nodes(_)
trim_selection_nodes(selections) ==
    [i \in 1..Len(selections) |->
        IF selections[i].kind = "InlineFragment"
        THEN [kind |-> "InlineFragment", type_condition |-> selections[i].on,
              selections |-> trim_selection_nodes(selections[i].sel)]
        ELSE [kind |-> "Field", name |-> selections[i].name,
              selections |-> trim_selection_nodes(selections[i].sel)]]

FetchNode(service_name, requires, variable_usages, op) ==
    [kind |-> "Fetch", service_name |-> service_name, requires |-> requires,
     variable_usages |-> variable_usages, operation |-> op]

FlattenNode(path, node) == [kind |-> "Flatten", path |-> path, node |-> node]
ParallelNode(nodes) == [kind |-> "Parallel", nodes |-> nodes]
SequenceNode(nodes) == [kind |-> "Sequence", nodes |-> nodes]

\* flat_wrap, line 283: the lambda applied to each node
SameKindSpliced(kind, nodes) ==
    [i \in 1..Len(nodes) |-> IF nodes[i].kind = kind THEN nodes[i].nodes ELSE <<nodes[i]>>]

\* flat_wrap without the single-node shortcut
flat_wrap_always_wraps(kind, nodes) ==
    IF Len(nodes) = 0 THEN ProgrammingError
    ELSE IF kind = "Parallel"
         THEN ParallelNode(flat_map(SameKindSpliced(kind, nodes)))
         ELSE SequenceNode(nodes)

\* flat_wrap that never splices the children of a same-kind node
flat_wrap_no_splice(kind, nodes) ==
    IF Len(nodes) = 0 THEN ProgrammingError
    ELSE IF Len(nodes) = 1 THEN nodes[1]
    ELSE IF kind = "Parallel" THEN ParallelNode(nodes) ELSE SequenceNode(nodes)

\* flat_wrap that splices for both kinds, as its header comment describes
flat_wrap_both_kinds(kind, nodes) ==
    IF Len(nodes) = 0 THEN ProgrammingError
    ELSE IF Len(nodes) = 1 THEN nodes[1]
    ELSE [kind |-> kind,
          nodes |-> flat_map(SameKindSpliced(kind, nodes))]

\* flat_wrap
flat_wrap(kind, nodes) ==
    IF Len(nodes) = 0 THEN ProgrammingError
    ELSE IF Len(nodes) = 1 THEN nodes[1]
    ELSE IF kind = "Parallel"
         THEN ParallelNode(flat_map(SameKindSpliced(kind, nodes)))
         ELSE SequenceNode(nodes)

\* the fetch node of one group: execution_node_for_group up to the FetchNode
fetch_node_for_group(h, group, parent_type, operation_kind) ==
    LET selection_set == selection_set_from_field_set(h[group].fields, parent_type)
        requires == IF Len(h[group].required_fields) > 0
                    THEN [null |-> FALSE,
                          selections |->
                              selection_set_from_field_set(h[group].required_fields, None)]
                    ELSE Null
        variable_usages == get_variable_usages(selection_set, h[group].internal_fragments)
        op == IF requires # Null
              THEN operation_for_entities_fetch(selection_set, variable_usages,
                                                h[group].internal_fragments)
              ELSE operation_for_root_fetch(selection_set, variable_usages,
                                            h[group].internal_fragments, operation_kind)
    IN FetchNode(h[group].service_name,
                 IF requires # Null
                 THEN [null |-> FALSE, selections |-> trim_selection_nodes(requires.selections)]
                 ELSE Null,
                 [i \in 1..Len(variable_usages) |-> variable_usages[i].name],
                 op)

RECURSIVE execution_node_for_group(_, _, _, _)
execution_node_for_group(h, group, parent_type, operation_kind) ==
    LET fetch_node == fetch_node_for_group(h, group, parent_type, operation_kind)
        node == IF Len(h[group].merge_at) > 0
                THEN FlattenNode(h[group].merge_at, fetch_node)
                ELSE fetch_node
        deps == dependent_groups(h, group)
    IN IF Len(deps) > 0
       THEN flat_wrap("Sequence",
                <<node,
                  flat_wrap("Parallel",
                      [i \in 1..Len(deps) |->
                          execution_node_for_group(h, deps[i], None, operation_kind)])>>)
       ELSE node

\* plan_node that runs the root groups of every operation in parallel
plan_node_always_parallel(is_mutation, nodes) ==
    IF nodes # <<>> THEN flat_wrap("Parallel", nodes) ELSE NoNode

\* the node of the QueryPlan that build_query_plan returns
plan_node(is_mutation, nodes) ==
    IF nodes # <<>>
    THEN IF is_mutation THEN flat_wrap("Sequence", nodes) ELSE flat_wrap("Parallel", nodes)
    ELSE NoNode

(***************************************************************************)
(* The planner as a state machine: build_query_plan in three steps.        *)
(***************************************************************************)
NoResult == [status |-> "running", node |-> NoNode]
NoWrap == [phase |-> "off"]

OptionChoices(kind) == IF kind = "subscription" THEN {"None", "off", "on"} ELSE {"None"}

\* Metadata nothing in the operation mentions is left at its default.  The
\* two services are interchangeable, so me is owned by "A"; an unresolvable
\* owner is tried on r1 and name, an absent key list on "A".
Owners(m) ==
    {o \in [DOMAIN DefaultSchema.owner -> Services \cup {None}] :
        /\ \A f \in DOMAIN DefaultSchema.owner \ m : o[f] = DefaultSchema.owner[f]
        /\ o["me"] = "A" /\ o["peers"] # None /\ o["r2"] # None}

KeyTables == {k \in [Services -> KeyChoices] : k["B"] # <<>>}

Schemas(kind, sel) ==
    LET m == Mentioned(sel)
        onT == "me" \in m
    IN IF kind = "subscription"
       THEN {DefaultSchema}
       ELSE {[owner |-> o, tmeta |-> t, imeta |-> DefaultSchema.imeta,
              keys |-> k, requires |-> r, provides |-> p] :
                o \in Owners(m),
                t \in IF onT THEN TypeMetaChoices ELSE {DefaultSchema.tmeta},
                k \in IF onT THEN KeyTables ELSE {DefaultSchema.keys},
                r \in IF "name" \in m THEN RequiresChoices ELSE {DefaultSchema.requires},
                p \in IF onT THEN ProvidesChoices ELSE {DefaultSchema.provides}}

Init ==
    /\ operation \in {[kind |-> k, sel |-> s, options |-> o] :
                         k \in OperationKinds, s \in SelectionSets("Query"),
                         o \in {"None", "off", "on"}}
    /\ operation.options \in OptionChoices(operation.kind)
    /\ schema \in Schemas(operation.kind, operation.sel)
    /\ pc = "start"
    /\ result = NoResult
    /\ heap = <<>>
    /\ roots = <<>>
    /\ wrap = NoWrap

\* the test of line 104 made against the wrong operation type
is_subscription_wrong_type(op) == op.kind = "mutation"

\* build_query_plan, line 104: the test that refuses an operation
is_subscription(op) == op.kind = "subscription"

\* build_query_plan, lines 99-107: the context is built, a subscription is refused
RejectSubscription ==
    /\ pc = "start"
    /\ is_subscription(operation)
    /\ pc' = "done"
    /\ result' = [status |-> "GraphQLError", node |-> NoNode]
    /\ UNCHANGED <<operation, schema, heap, roots, wrap>>

\* build_query_plan, lines 109-127: collect the root fields and split them
SplitRootFields ==
    /\ pc = "start"
    /\ ~is_subscription(operation)
    /\ LET root_type == RootTypeOf(operation.kind)
           is_mutation == operation.kind = "mutation"
           fields == collect_fields(new_scope(root_type), operation.sel, NoFields)
           st == split_root_fields(fields.fields, is_mutation)
           err == IF fields.err # "none" THEN fields.err ELSE st.err
       IN IF err # "none"
          THEN /\ pc' = "done"
               /\ result' = [status |-> err, node |-> NoNode]
               /\ heap' = IF fields.err # "none" THEN <<>> ELSE st.heap
               /\ roots' = IF fields.err # "none" THEN <<>> ELSE st.roots
          ELSE /\ pc' = "emit"
               /\ result' = result
               /\ heap' = st.heap
               /\ roots' = st.roots
    /\ UNCHANGED <<operation, schema, wrap>>

\* build_query_plan, lines 131-139: one node per root group, wrapped
EmitPlan ==
    /\ pc = "emit"
    /\ LET root_type == RootTypeOf(operation.kind)
           is_mutation == operation.kind = "mutation"
           nodes == [i \in 1..Len(roots) |->
                        execution_node_for_group(heap, roots[i], root_type, operation.kind)]
       IN result' = [status |-> "plan", node |-> plan_node(is_mutation, nodes)]
    /\ pc' = "done"
    /\ UNCHANGED <<operation, schema, heap, roots, wrap>>

Next == RejectSubscription \/ SplitRootFields \/ EmitPlan

Spec == Init /\ [][Next]_vars

(***************************************************************************)
(* The emission functions on their own: flat_wrap, the top-level wrapping  *)
(* of build_query_plan and the fetch node of one group, each applied to    *)
(* inputs drawn from a pool.                                               *)
(***************************************************************************)
Leaf(service) ==
    FetchNode(service, Null, <<>>,
              operation_for_root_fetch(<<FieldNode("r1", <<>>)>>, <<>>, {}, "query"))

\* plan nodes a root group can emit
RootNodePool ==
    {Leaf("A"), Leaf("B"), SequenceNode(<<Leaf("A"), FlattenNode(<<"me">>, Leaf("B"))>>)}

NodePool ==
    RootNodePool
        \cup {FlattenNode(<<"me">>, Leaf("B")),
              ParallelNode(<<Leaf("A"), Leaf("B")>>),
              ParallelNode(<<ParallelNode(<<Leaf("B"), Leaf("A")>>), Leaf("A")>>)}

SeqsUpTo(S, n) == UNION {[1..k -> S] : k \in 0..n}

FieldSetPool ==
    {<<KeyField("T", "name")>>,
     <<KeyField("T", "id"), KeyField("T", "name")>>,
     <<KeyField("Query", "r2")>>,
     <<KeyField("Mutation", "r1"), KeyField("Mutation", "r2")>>}

RequiredPool ==
    {<<>>,
     <<KeyField("T", "__typename"), KeyField("T", "id")>>,
     <<KeyField("T", "__typename"), KeyField("T", "id"), KeyField("T", "tag")>>}

GroupPool ==
    {[FetchGroup(s) EXCEPT !.fields = f, !.required_fields = r, !.merge_at = m] :
        s \in Services, f \in FieldSetPool, r \in RequiredPool, m \in {<<>>, <<"me">>}}

InitEmit ==
    /\ schema = DefaultSchema
    /\ pc = "unit"
    /\ result = NoResult
    /\ roots = <<>>
    /\ \/ /\ operation = [kind |-> "query", sel |-> <<>>, options |-> "None"]
          /\ heap = <<>>
          /\ wrap \in {[phase |-> "in", exp |-> "flat_wrap", kind |-> k, xs |-> xs, y |-> y] :
                          k \in {"Parallel", "Sequence"},
                          xs \in SeqsUpTo(NodePool, MaxWrap),
                          y \in NodePool}
       \/ /\ operation \in {[kind |-> k, sel |-> <<>>, options |-> "None"] :
                               k \in {"query", "mutation"}}
          /\ heap = <<>>
          /\ wrap \in {[phase |-> "in", exp |-> "plan_node", xs |-> xs] :
                          xs \in SeqsUpTo(RootNodePool, MaxWrap)}
       \/ /\ operation \in {[kind |-> k, sel |-> <<>>, options |-> "None"] :
                               k \in {"query", "mutation"}}
          /\ heap \in {<<g>> : g \in GroupPool}
          /\ wrap \in {[phase |-> "in", exp |-> "fetch", parent_type |-> t] :
                          t \in {None, RootTypeOf(operation.kind)}}

\* the exception of an inner call propagates out of the outer one
flat_wrap_nested(kind, xs, y) ==
    IF flat_wrap(kind, xs) = ProgrammingError
    THEN ProgrammingError
    ELSE flat_wrap(kind, <<flat_wrap(kind, xs), y>>)

ApplyFlatWrap ==
    /\ pc = "unit" /\ wrap.phase = "in" /\ wrap.exp = "flat_wrap"
    /\ wrap' = [phase |-> "out", exp |-> "flat_wrap",
                kind |-> wrap.kind, xs |-> wrap.xs, y |-> wrap.y,
                out |-> flat_wrap(wrap.kind, wrap.xs),
                nested |-> flat_wrap_nested(wrap.kind, wrap.xs, wrap.y),
                joined |-> flat_wrap(wrap.kind, wrap.xs \o <<wrap.y>>)]
    /\ UNCHANGED <<operation, schema, pc, result, heap, roots>>

ApplyPlanNode ==
    /\ pc = "unit" /\ wrap.phase = "in" /\ wrap.exp = "plan_node"
    /\ wrap' = [phase |-> "out", exp |-> "plan_node", xs |-> wrap.xs,
                out |-> plan_node(operation.kind = "mutation", wrap.xs)]
    /\ UNCHANGED <<operation, schema, pc, result, heap, roots>>

ApplyFetchNode ==
    /\ pc = "unit" /\ wrap.phase = "in" /\ wrap.exp = "fetch"
    /\ wrap' = [phase |-> "out", exp |-> "fetch", parent_type |-> wrap.parent_type,
                out |-> fetch_node_for_group(heap, 1, wrap.parent_type, operation.kind)]
    /\ UNCHANGED <<operation, schema, pc, result, heap, roots>>

NextEmit == ApplyFlatWrap \/ ApplyPlanNode \/ ApplyFetchNode

SpecEmit == InitEmit /\ [][NextEmit]_vars

(***************************************************************************)
(* Field collection and subfield routing on their own: collect_fields,     *)
(* the group_for_field of split_subfields, dependent_group_for_service and *)
(* execution_node_for_group, each applied to inputs drawn from a pool.     *)
(***************************************************************************)
\* field names a selection may carry; "nope" is defined on no type
CollectNames == {"id", "nope", "__typename", "__type"}

\* selections with fragments: spreads of the named fragments, an inline
\* fragment, and a field next to them
FragmentSelections ==
    {<<FragmentSpread(a)>> : a \in FragmentNames}
        \cup {<<FragmentSpread(a), FragmentSpread(b)>> : a, b \in FragmentNames}
        \cup {<<FieldNode("__typename", <<>>), FragmentSpread(a)>> : a \in FragmentNames}
        \cup {<<InlineFragment(t, <<FieldNode("__typename", <<>>)>>)>> : t \in {"T", "Query"}}
        \cup {<<InlineFragment("T", <<FragmentSpread(a)>>), FragmentSpread(a)>> :
                  a \in FragmentNames}

CollectInputs ==
    {[phase |-> "in", exp |-> "collect_fields", parent_type |-> t, selections |-> sel] :
        t \in {"Query", "T", "I", "U"},
        sel \in {<<FieldNode(f, <<>>)>> : f \in CollectNames}
                 \cup {<<FieldNode("__typename", <<>>), FieldNode(f, <<>>)>> :
                           f \in CollectNames}
                 \cup FragmentSelections}

\* a subfield of "me" to route: id has no owner of its own, name has
RouteFields ==
    {Field(new_scope(t), FieldNode(f, <<>>), FieldDef(t, f)) :
        t \in {"T", "I"}, f \in {"id", "name"}}

\* the metadata the routing of a field on parent_type can depend on
RouteSchemas(parent_type) ==
    {[owner |-> [DefaultSchema.owner EXCEPT !["name"] = o],
      tmeta |-> t, imeta |-> i, keys |-> k, requires |-> r,
      provides |-> DefaultSchema.provides] :
        o \in Services \cup {None},
        t \in IF parent_type = "T" THEN TypeMetaChoices ELSE {DefaultSchema.tmeta},
        i \in IF parent_type = "T" THEN {DefaultSchema.imeta} ELSE {None, "value", "B"},
        k \in [Services -> KeyChoices],
        r \in RequiresChoices}

\* the sub-group complete_field makes for "me" before its subfields are split
ParentGroups ==
    {[FetchGroup(s) EXCEPT
         !.merge_at = <<"me">>,
         !.provided_fields = [i \in 1..Len(p) |-> KeyField("T", p[i])]] :
        s \in Services, p \in ProvidesChoices}

\* a group at "me" that fetches T.name for the entities of its parent
EntityGroup(service_name) ==
    [FetchGroup(service_name) EXCEPT
        !.merge_at = <<"me">>,
        !.fields = <<KeyField("T", "name")>>,
        !.required_fields = <<KeyField("T", "__typename"), KeyField("T", "id")>>]

\* Group 1 with its dependent groups: mapped holds the services of the children
\* in its service-keyed map, others those of the groups hoisted into
\* other_dependent_groups; with nested, the last of them has a child of its own.
ExecHeap(service_name, merge_at, mapped, others, nested) ==
    LET n == Len(mapped) + Len(others)
        first == [FetchGroup(service_name) EXCEPT
                     !.merge_at = merge_at,
                     !.fields = <<KeyField("T", "__typename"), KeyField("T", "id")>>,
                     !.by_service = [i \in 1..Len(mapped) |->
                                        [service |-> mapped[i], group |-> i + 1]],
                     !.other_dependent_groups = [i \in 1..Len(others) |-> Len(mapped) + i + 1]]
        children == [i \in 1..n |-> EntityGroup((mapped \o others)[i])]
    IN IF nested /\ n > 0
       THEN <<first>>
               \o [children EXCEPT ![n].by_service = <<[service |-> "A", group |-> n + 2]>>,
                                    ![n].fields = @ \o EntityGroup("A").required_fields]
               \o <<EntityGroup("A")>>
       ELSE <<first>> \o children

ExecHeaps ==
    {ExecHeap(s, m, mapped, others, nested) :
        s \in Services,
        m \in {<<>>, <<"me">>},
        mapped \in {<<>>, <<"A">>, <<"B">>, <<"B", "A">>},
        others \in SeqsUpTo(Services, MaxHoisted),
        nested \in BOOLEAN}

\* The list objects a caller of dependent_group_for_service holds, by value:
\* an empty list, a key list and a requires list.
CallerLists ==
    <<<<>>,
      <<KeyField("T", "__typename"), KeyField("T", "id")>>,
      <<KeyField("T", "tag")>>>>

\* the child of group 1 for a service, 0 when the map has none
ChildOf(h, service_name) ==
    LET found == SelectSeq(h[1].by_service, LAMBDA e : e.service = service_name)
    IN IF found = <<>> THEN 0 ELSE found[1].group

\* Selection sets get_internal_fragment is called with: the subfields of
\* "peers" in two orders, and a selection set that holds a spread of the first fragment.
FragmentSets ==
    {<<FieldNode("id", <<>>), FieldNode("name", <<>>), FieldNode("__typename", <<>>)>>,
     <<FieldNode("name", <<>>), FieldNode("id", <<>>), FieldNode("__typename", <<>>)>>,
     <<FieldNode("id", <<>>), FieldNode("name", <<>>),
       FieldNode("peers", <<FragmentSpread("__QueryPlanFragment_0")>>)>>}

\* hash() tells all selection sets apart, or all but two, or none
HashChoices ==
    {{}, {FragmentSets}} \cup ({{{a, b}} : a, b \in FragmentSets} \ {{{a}} : a \in FragmentSets})

\* The field "peers" of T with one to four subfields, among them "peers" with
\* three subfields of its own.
FragmentFields ==
    {Field(new_scope("T"), FieldNode("peers", sel), FieldDef("T", "peers")) :
        sel \in {<<FieldNode("id", <<>>)>>,
                 <<FieldNode("id", <<>>), FieldNode("name", <<>>)>>,
                 <<FieldNode("id", <<>>), FieldNode("id", <<>>), FieldNode("id", <<>>)>>,
                 <<FieldNode("id", <<>>), FieldNode("name", <<>>),
                   FieldNode("__typename", <<>>)>>,
                 <<FieldNode("name", <<>>), FieldNode("id", <<>>),
                   FieldNode("__typename", <<>>)>>,
                 <<FieldNode("id", <<>>), FieldNode("name", <<>>),
                   FieldNode("peers", <<FieldNode("id", <<>>), FieldNode("name", <<>>),
                                        FieldNode("__typename", <<>>)>>)>>,
                 <<FieldNode("id", <<>>), FieldNode("name", <<>>),
                   FieldNode("peers", <<FieldNode("id", <<>>)>>),
                   FieldNode("__typename", <<>>)>>}}

\* name stays with the service of "peers", or belongs to the other service
FragmentSchemas ==
    {[DefaultSchema EXCEPT !.owner["name"] = o] : o \in Services}

\* a field of the interface J, whose possible runtime types are T and S
RuntimeFields ==
    {Field(new_scope("J"), FieldNode(f, <<>>), FieldDef("J", f)) : f \in {"id", "name"}}

\* the metadata the groups of T.name and S.name depend on
RuntimeSchemas ==
    {[DefaultSchema EXCEPT !.owner["name"] = o, !.tmeta = t, !.imeta = i, !.requires = r] :
        o \in Services \cup {None}, t \in Services, i \in {None, "A"},
        r \in RequiresChoices}

\* the inputs of the experiments made with the default options
InitUnits ==
    \/ /\ schema = DefaultSchema
       /\ heap = <<>>
       /\ wrap \in CollectInputs
    \/ /\ wrap \in {[phase |-> "in", exp |-> "split_subfields", field |-> f, parent |-> g] :
                          f \in RouteFields, g \in ParentGroups}
       /\ schema \in RouteSchemas(wrap.field.scope.parent_type)
       /\ heap = <<wrap.parent>>
    \/ /\ schema = DefaultSchema
       /\ heap \in {<<[FetchGroup("A") EXCEPT !.merge_at = m]>> : m \in {<<>>, <<"me">>}}
       /\ wrap = [phase |-> "calls", exp |-> "dependent_group_for_service",
                     lists |-> CallerLists,
                     held |-> [s \in Services |-> 0],
                     calls |-> <<>>]
    \/ /\ wrap \in {[phase |-> "in", exp |-> "split_fields", field |-> f, parent |-> g] :
                          f \in RuntimeFields, g \in ParentGroups}
       /\ schema \in RuntimeSchemas
       /\ heap = <<wrap.parent>>
    \/ /\ schema = DefaultSchema
       /\ heap \in ExecHeaps
       /\ wrap = [phase |-> "in", exp |-> "execution_node_for_group"]

InitSplit ==
    /\ pc = "unit"
    /\ result = NoResult
    /\ roots = <<>>
    /\ operation \in {[kind |-> "query", sel |-> <<>>, options |-> o] : o \in {"None", "on"}}
    /\ \/ /\ schema \in FragmentSchemas
          /\ wrap \in {[phase |-> "in", exp |-> "complete_field", field |-> f,
                         hashes |-> c] :
                           f \in FragmentFields, c \in HashChoices}
          /\ heap = <<[FetchGroup("A") EXCEPT !.merge_at = <<"me">>]>>
       \/ /\ operation.options = "on"
          /\ schema = DefaultSchema
          /\ heap = <<>>
          /\ wrap \in {[phase |-> "fragments", exp |-> "get_internal_fragment",
                         hashes |-> c,
                         context |-> build_query_planning_context(operation.options),
                         calls |-> <<>>] : c \in HashChoices}
       \/ /\ operation.options = "None"
          /\ InitUnits

ApplyCollectFields ==
    /\ pc = "unit" /\ wrap.phase = "in" /\ wrap.exp = "collect_fields"
    /\ wrap' = [wrap EXCEPT !.phase = "out"]
                 @@ [out |-> collect_fields(new_scope(wrap.parent_type),
                                            wrap.selections, NoFields)]
    /\ UNCHANGED <<operation, schema, pc, result, heap, roots>>

\* split_subfields on a field set of one field, with group 1 as parent group
ApplySplitSubfields ==
    /\ pc = "unit" /\ wrap.phase = "in" /\ wrap.exp = "split_subfields"
    /\ LET st == split_subfields(SplitState(heap, <<>>), heap[1].merge_at, <<wrap.field>>, 1)
       IN /\ heap' = st.heap
          /\ wrap' = [wrap EXCEPT !.phase = "out"]
                       @@ [err |-> st.err,
                           group |-> st.group,
                           node |-> IF st.err = "none"
                                    THEN execution_node_for_group(st.heap, 1, None, "query")
                                    ELSE NoNode]
    /\ UNCHANGED <<operation, schema, pc, result, roots>>

\* split_fields on a field set of one field of the interface J, with the
\* group_for_field of split_subfields and group 1 as parent group
ApplySplitFields ==
    /\ pc = "unit" /\ wrap.phase = "in" /\ wrap.exp = "split_fields"
    /\ LET st == split_fields(SplitState(heap, <<>>), [kind |-> "sub", parent |-> 1],
                              heap[1].merge_at, <<wrap.field>>)
       IN /\ heap' = st.heap
          /\ wrap' = [wrap EXCEPT !.phase = "out"]
                       @@ [err |-> st.err, calls |-> st.calls]
    /\ UNCHANGED <<operation, schema, pc, result, roots>>

\* complete_field on a field set of one field, with group 1 as parent group
ApplyCompleteField ==
    /\ pc = "unit" /\ wrap.phase = "in" /\ wrap.exp = "complete_field"
    /\ LET st == complete_field(SplitState(heap, <<>>), wrap.field.scope, 1,
                                heap[1].merge_at, <<wrap.field>>)
       IN /\ heap' = st.heap
          /\ wrap' = [wrap EXCEPT !.phase = "out"]
                       @@ [err |-> st.err, out |-> st.field, context |-> st.context]
    /\ UNCHANGED <<operation, schema, pc, result, roots>>

\* execution_node_for_group on group 1
ApplyExecutionNode ==
    /\ pc = "unit" /\ wrap.phase = "in" /\ wrap.exp = "execution_node_for_group"
    /\ wrap' = [wrap EXCEPT !.phase = "out"]
                 @@ [out |-> execution_node_for_group(heap, 1, None, operation.kind)]
    /\ UNCHANGED <<operation, schema, pc, result, heap, roots>>

\* One call of dependent_group_for_service on group 1, with the caller's list
\* object i as required_fields.  wrap.held tells which caller list object, if
\* any, each child holds as its required_fields since line 868 assigned it;
\* the extend of line 866 then changes that object, for the caller and for
\* every child that holds it.
CallDependentGroup ==
    /\ pc = "unit" /\ wrap.phase = "calls"
    /\ Len(wrap.calls) < MaxCalls
    /\ \E service_name \in Services, i \in 1..Len(wrap.lists) :
          LET required_fields == wrap.lists[i]
              holds == wrap.held[service_name]
              d == dependent_group_for_service(heap, 1, service_name,
                                               required_fields, holds = i)
              extended == IF required_fields # <<>> THEN holds ELSE 0
              held == IF required_fields # <<>> /\ holds = 0
                      THEN [wrap.held EXCEPT ![service_name] = i]
                      ELSE wrap.held
              lists == IF extended # 0
                       THEN [wrap.lists EXCEPT ![extended] = d.heap[d.group].required_fields]
                       ELSE wrap.lists
          IN /\ heap' = [g \in 1..Len(d.heap) |->
                            IF \E s \in Services :
                                   /\ ChildOf(d.heap, s) = g
                                   /\ extended # 0
                                   /\ held[s] = extended
                            THEN [d.heap[g] EXCEPT !.required_fields = lists[extended]]
                            ELSE d.heap[g]]
             /\ wrap' = [wrap EXCEPT
                            !.lists = lists,
                            !.held = held,
                            !.calls = Append(@, [service |-> service_name,
                                                 list |-> i,
                                                 required_fields |-> required_fields,
                                                 group |-> d.group])]
    /\ UNCHANGED <<operation, schema, pc, result, roots>>

\* One call of get_internal_fragment on the planning context
CallGetInternalFragment ==
    /\ pc = "unit" /\ wrap.phase = "fragments"
    /\ Len(wrap.calls) < MaxFragmentCalls
    /\ \E selection_set \in FragmentSets :
          LET internal == get_internal_fragment(wrap.context, selection_set, "T")
          IN wrap' = [wrap EXCEPT
                         !.context = internal.context,
                         !.calls = Append(@, [selection_set |-> selection_set,
                                              fragment |-> internal.fragment])]
    /\ UNCHANGED <<operation, schema, pc, result, heap, roots>>

NextSplit ==
    \/ ApplyCollectFields
    \/ ApplySplitSubfields
    \/ ApplySplitFields
    \/ ApplyCompleteField
    \/ ApplyExecutionNode
    \/ CallDependentGroup
    \/ CallGetInternalFragment

SpecSplit == InitSplit /\ [][NextSplit]_vars

(***************************************************************************)
(* Vocabulary of the properties.                                           *)
(***************************************************************************)
IsPrefix(p, q) == Len(p) <= Len(q) /\ SubSeq(q, 1, Len(p)) = p

\* the root fields routed by the splitter: one per response name, no __typename
RealRootFields ==
    LET names == group_by([i \in 1..Len(operation.sel) |-> operation.sel[i].name],
                          operation.sel)
    IN SelectSeq([i \in 1..Len(names) |-> names[i].key], LAMBDA f : f # "__typename")

RootOwners == [i \in 1..Len(RealRootFields) |-> schema.owner[RealRootFields[i]]]

\* the maximal runs of equal neighbours, one entry per run
RECURSIVE Runs(_)
Runs(s) ==
    IF Len(s) <= 1 THEN s
    ELSE IF s[1] = s[2] THEN Runs(Tail(s)) ELSE <<s[1]>> \o Runs(Tail(s))

RootServices == [i \in 1..Len(roots) |-> heap[roots[i]].service_name]

\* fields of T selected anywhere in the operation
SelectedOnT == Mentioned(operation.sel) \cap {"id", "name", "peers"}

OwnerOnT(f) == get_owning_service("T", FieldDef("T", f))

NoDependents == \A g \in 1..Len(heap) : dependent_groups(heap, g) = <<>>

SingleFetch(S) ==
    /\ result.status = "plan"
    /\ result.node.kind = "Fetch"
    /\ result.node.service_name = S
    /\ result.node.requires = Null
    /\ Len(roots) = 1
    /\ NoDependents

\* the path of every fetch under a plan node (empty for a bare Fetch)
RECURSIVE FetchPaths(_)
FetchPaths(n) ==
    CASE n.kind = "Fetch" -> {<<>>}
      [] n.kind = "Flatten" -> {n.path}
      [] n.kind \in {"Parallel", "Sequence"} ->
            UNION {FetchPaths(n.nodes[i]) : i \in 1..Len(n.nodes)}
      [] OTHER -> {}

GroupPath(n) == IF n.kind = "Flatten" THEN n.path ELSE <<>>

\* in every Sequence(group, dependents) the group's path is a prefix of the
\* path of every fetch among the dependents
RECURSIVE PathsNest(_)
PathsNest(n) ==
    CASE n.kind = "Sequence" ->
            /\ \A p \in UNION {FetchPaths(n.nodes[i]) : i \in 2..Len(n.nodes)} :
                   IsPrefix(GroupPath(n.nodes[1]), p)
            /\ \A i \in 1..Len(n.nodes) : PathsNest(n.nodes[i])
      [] n.kind = "Parallel" -> \A i \in 1..Len(n.nodes) : PathsNest(n.nodes[i])
      [] OTHER -> TRUE

\* a Sequence whose group sits at path p and has a fetch at path q below it
RECURSIVE HasNesting(_, _, _)
HasNesting(n, p, q) ==
    CASE n.kind = "Sequence" ->
            \/ /\ n.nodes[1].kind = "Flatten"
               /\ n.nodes[1].path = p
               /\ q \in UNION {FetchPaths(n.nodes[i]) : i \in 2..Len(n.nodes)}
            \/ \E i \in 1..Len(n.nodes) : HasNesting(n.nodes[i], p, q)
      [] n.kind = "Parallel" -> \E i \in 1..Len(n.nodes) : HasNesting(n.nodes[i], p, q)
      [] OTHER -> FALSE

\* the children of every immediate Parallel child spliced in place
RECURSIVE Spliced(_)
Spliced(nodes) ==
    IF nodes = <<>> THEN <<>>
    ELSE (IF Head(nodes).kind = "Parallel" THEN Head(nodes).nodes ELSE <<Head(nodes)>>)
            \o Spliced(Tail(nodes))

FlatWrapDone == wrap.phase = "out" /\ wrap.exp = "flat_wrap"
PlanNodeDone == wrap.phase = "out" /\ wrap.exp = "plan_node"
FetchDone == wrap.phase = "out" /\ wrap.exp = "fetch"

(***************************************************************************)
(* Properties.                                                             *)
(***************************************************************************)

\* C1: a subscription is never planned: no group is made for it, and the run
\* ends with the GraphQLError and no plan, whatever it selects and whatever
\* the options are.
C1_SubscriptionRejected ==
    operation.kind = "subscription" =>
        /\ pc \in {"start", "done"}
        /\ heap = <<>>
        /\ pc = "done" => result = [status |-> "GraphQLError", node |-> NoNode]

C1_Witness ==
    /\ pc = "done"
    /\ operation.kind = "subscription"
    /\ operation.options = "on"
    /\ Len(operation.sel) = 2
    /\ result.status = "GraphQLError"

\* C2: for a mutation whose root fields all have an owner, the serial splitter
\* returns one group per maximal run of consecutive root fields with the same
\* owner, in source order.
C2_MutationRuns ==
    (/\ pc # "start"
     /\ operation.kind = "mutation"
     /\ "me" \notin Mentioned(operation.sel)
     /\ RealRootFields # <<>>
     /\ \A i \in 1..Len(RootOwners) : RootOwners[i] # None)
        => /\ result.status \in {"running", "plan"}
           /\ RootServices = Runs(RootOwners)

C5_EmptyAndSingle ==
    FlatWrapDone =>
        /\ Len(wrap.xs) = 0 => wrap.out = ProgrammingError
        /\ Len(wrap.xs) = 1 => wrap.out = wrap.xs[1]

C5_Witness ==
    /\ FlatWrapDone
    /\ wrap.kind = "Sequence"
    /\ Len(wrap.xs) = 1
    /\ wrap.xs[1].kind = "Fetch"
    /\ wrap.out = wrap.xs[1]

\* C6 as stated: for every list xs and node y, wrapping the wrapped xs together
\* with y in a Parallel gives the node that wrapping xs ++ [y] gives.
C6_AsStated ==
    (FlatWrapDone /\ wrap.kind = "Parallel") => wrap.nested = wrap.joined

\* C6 amended: the same for every non-empty list xs.
C6_NestedEqualsJoined ==
    (FlatWrapDone /\ wrap.kind = "Parallel" /\ wrap.xs # <<>>) => wrap.nested = wrap.joined

C6_Witness ==
    /\ FlatWrapDone
    /\ wrap.kind = "Parallel"
    /\ Len(wrap.xs) = 2
    /\ wrap.xs[1].kind = "Parallel"
    /\ wrap.nested = wrap.joined
    /\ Len(wrap.joined.nodes) = 4

C8_EntityFetchShape ==
    FetchDone =>
        LET g == heap[1]
            def == wrap.out.operation.definitions[1]
            selection_set == selection_set_from_field_set(g.fields, wrap.parent_type)
        IN /\ Len(wrap.out.operation.definitions) = 1
           /\ (wrap.out.requires # Null) <=> (g.required_fields # <<>>)
           /\ g.required_fields # <<>> =>
                 /\ def.operation = "query"
                 /\ def.variable_definitions[1] =
                        [name |-> "representations", type |-> "[_Any!]!"]
                 /\ Len(def.selection_set) = 1
                 /\ def.selection_set[1].name = "_entities"
                 /\ def.selection_set[1].arguments =
                        <<[name |-> "representations", value |-> "$representations"]>>
                 /\ def.selection_set[1].sel = selection_set
           /\ g.required_fields = <<>> =>
                 /\ def.operation = operation.kind
                 /\ def.selection_set = selection_set
                 /\ \A i \in 1..Len(def.variable_definitions) :
                        def.variable_definitions[i].name # "representations"

C8_Witness ==
    /\ FetchDone
    /\ operation.kind = "mutation"
    /\ heap[1].required_fields # <<>>
    /\ wrap.out.requires # Null
    /\ wrap.out.operation.definitions[1].operation = "query"
    /\ Len(wrap.out.operation.definitions[1].variable_definitions) = 2

\* C9: in every emitted plan the path of a group is a prefix of the path of
\* every fetch among its direct and transitive dependent groups.
C9_MergeAtPrefix ==
    (pc = "done" /\ result.status = "plan") => PathsNest(result.node)

C9_Witness ==
    /\ pc = "done"
    /\ result.status = "plan"
    /\ HasNesting(result.node, <<"me">>, <<"me", "peers", "@">>)

\* C10: when the owner of a root field cannot be resolved, or the base service
\* or the owner cannot be resolved for a subfield that splitting reaches,
\* planning ends with the GraphQLError and no plan.
C10_UnresolvedRaises ==
    (/\ pc = "done"
     /\ operation.kind # "subscription"
     /\ \/ \E i \in 1..Len(RootOwners) : RootOwners[i] = None
        \/ /\ operation.kind = "query"
           /\ SelectedOnT # {}
           /\ schema.tmeta # "value"
           /\ schema.tmeta = None \/ \E f \in SelectedOnT : OwnerOnT(f) = None)
        => result = [status |-> "GraphQLError", node |-> NoNode]

CollectDone == wrap.phase = "out" /\ wrap.exp = "collect_fields"

\* the field is a meta field of the type or one of the fields the type defines
IsDefinedOn(parent_type, field_name) ==
    \/ field_name = "__typename"
    \/ field_name \in {"__schema", "__type"} /\ parent_type = "Query"
    \/ field_name \in DefinedFields(parent_type)

\* C11: when a selected field is not defined on its parent type, an object,
\* an interface or a union, field collection fails with the GraphQLError and
\* with no other kind of error.
C11_MissingFieldRaises ==
    (/\ CollectDone
     /\ \A i \in 1..Len(wrap.selections) : wrap.selections[i].kind = "Field"
     /\ \E i \in 1..Len(wrap.selections) :
            ~IsDefinedOn(wrap.parent_type, wrap.selections[i].name))
        => wrap.out.err = "GraphQLError"

RouteDone == wrap.phase = "out" /\ wrap.exp = "split_subfields"

\* the field as group_for_field receives it: the field itself, or for an
\* abstract parent type whose runtime types extend the field, the field on
\* the runtime type
RouteExploded ==
    /\ IsAbstractType(wrap.field.scope.parent_type)
    /\ ~possible_field_defs(wrap.field.scope, wrap.field).has_no_extending_field_defs

RouteField ==
    IF RouteExploded
    THEN Field(new_scope_in("T", wrap.field.scope), wrap.field.field_node,
               FieldDef("T", wrap.field.field_def.name))
    ELSE wrap.field

RouteType == RouteField.scope.parent_type
RouteBase == get_base_service(RouteType)
RouteOwning == get_owning_service(RouteType, RouteField.field_def)
RouteRequired == get_required_fields(RouteType, RouteField.field_def, RouteOwning)

IsProvided(field) ==
    \E i \in 1..Len(wrap.parent.provided_fields) :
        wrap.parent.provided_fields[i].field_def.name = field.field_def.name

\* the field went to the parent group, and nothing else was made or changed
RoutedToParent ==
    /\ wrap.err = "none"
    /\ wrap.group = 1
    /\ heap = <<[wrap.parent EXCEPT !.fields = Append(@, RouteField)]>>

\* C12: a subfield whose owning service is the base service of its parent type
\* goes to the parent group itself, with no dependent group made or changed,
\* when that service is the parent group's or the field is among the parent
\* group's provided fields.
C12_RoutedToParent ==
    (/\ RouteDone
     /\ RouteBase # None
     /\ RouteOwning = RouteBase
     /\ RouteOwning = wrap.parent.service_name \/ IsProvided(wrap.field))
        => RoutedToParent

C12_Witness ==
    /\ RouteDone
    /\ RouteType = "T"
    /\ RouteBase = "B"
    /\ RouteOwning = "B"
    /\ wrap.parent.service_name = "A"
    /\ wrap.field.field_def.name = "name"
    /\ IsProvided(wrap.field)
    /\ RoutedToParent

\* the groups reached through the service-keyed map of some group
MapChildren ==
    {heap[p].by_service[j].group : <<p, j>> \in
        {<<p, j>> \in (1..Len(heap)) \X (1..Len(heap)) : j <= Len(heap[p].by_service)}}

\* C13: a group returned by the splitting of the root fields has no required
\* fields and no merge_at; a group with required fields is the child some
\* group holds in its service-keyed map.
C13_RootsNeverRequire ==
    /\ \A i \in 1..Len(roots) :
           /\ heap[roots[i]].required_fields = <<>>
           /\ heap[roots[i]].merge_at = <<>>
    /\ \A g \in 1..Len(heap) :
           heap[g].required_fields # <<>> => g \in MapChildren

C13_Witness ==
    /\ pc = "done"
    /\ result.status = "plan"
    /\ Len(roots) = 1
    /\ heap[roots[1]].fields # <<>>
    /\ \E g \in MapChildren :
           /\ heap[g].required_fields # <<>>
           /\ g \in {heap[roots[1]].other_dependent_groups[i] :
                         i \in 1..Len(heap[roots[1]].other_dependent_groups)}

ExecDone == wrap.phase = "out" /\ wrap.exp = "execution_node_for_group"

\* node is the fetch of group g itself: a Fetch, under a Flatten at merge_at
\* when the group has one
IsOwnNode(node, g) ==
    IF heap[g].merge_at = <<>>
    THEN node.kind = "Fetch" /\ node.service_name = heap[g].service_name
    ELSE /\ node.kind = "Flatten"
         /\ node.path = heap[g].merge_at
         /\ node.node.kind = "Fetch"
         /\ node.node.service_name = heap[g].service_name

\* node starts with the fetch of group g
StartsWith(node, g) ==
    IF dependent_groups(heap, g) = <<>>
    THEN IsOwnNode(node, g)
    ELSE node.kind = "Sequence" /\ IsOwnNode(node.nodes[1], g)

SplittingDone == pc = "emit" \/ (pc = "done" /\ result.status = "plan")

\* no two fields of the list have the same response name and parent type
OnePerNameAndType(fields) ==
    \A i, j \in 1..Len(fields) :
        (/\ i < j
         /\ get_response_name(fields[i].field_node) = get_response_name(fields[j].field_node))
            => fields[i].scope.parent_type # fields[j].scope.parent_type

\* no two selections are the same field or fragments on the same type, at the
\* top and inside every inline fragment
RECURSIVE OnePerSelection(_)
OnePerSelection(selections) ==
    /\ \A i, j \in 1..Len(selections) :
           (i < j /\ selections[i].kind = selections[j].kind) =>
               IF selections[i].kind = "InlineFragment"
               THEN selections[i].on # selections[j].on
               ELSE selections[i].name # selections[j].name
    /\ \A i \in 1..Len(selections) :
           selections[i].kind = "InlineFragment" => OnePerSelection(selections[i].sel)

HasRepeatedField(g) == ~OnePerNameAndType(heap[g].fields)

CallsMade == wrap.phase = "calls"

\* the lists passed for a service, in call order, end to end
RECURSIVE PassedFor(_, _)
PassedFor(calls, service_name) ==
    IF calls = <<>> THEN <<>>
    ELSE (IF Head(calls).service = service_name THEN Head(calls).required_fields ELSE <<>>)
            \o PassedFor(Tail(calls), service_name)

\* C16: whatever calls of dependent_group_for_service are made on a group,
\* the calls for one service return one and the same child, made with the
\* group's merge_at, and the child's required fields are the lists passed for
\* that service, in call order.
C16_OneChildPerService ==
    CallsMade =>
        /\ \A a, b \in 1..Len(wrap.calls) :
               (wrap.calls[a].service = wrap.calls[b].service)
                   <=> (wrap.calls[a].group = wrap.calls[b].group)
        /\ \A a \in 1..Len(wrap.calls) :
               LET child == heap[wrap.calls[a].group]
               IN /\ child.service_name = wrap.calls[a].service
                  /\ child.merge_at = heap[1].merge_at
                  /\ child.required_fields = PassedFor(wrap.calls, wrap.calls[a].service)

\* the children in the service-keyed map of one group
MapChildrenOf(g) == {heap[g].by_service[j].group : j \in 1..Len(heap[g].by_service)}

\* every required field of the child is among the fields of the group
RequiredIn(h, child, g) ==
    \A i \in 1..Len(h[child].required_fields) :
        \E j \in 1..Len(h[g].fields) : h[g].fields[j] = h[child].required_fields[i]

\* C17: every field a dependent group requires is among the fields of the
\* group dependent_group_for_service was called on to get it, the base group
\* between a parent and an owning group included.
C17_RequiredAreFetched ==
    \A g \in 1..Len(heap) : \A child \in MapChildrenOf(g) : RequiredIn(heap, child, g)

\* a base group that has required fields of its own and a child that has some
C17_Witness ==
    /\ pc = "done"
    /\ \E g \in 1..Len(heap) : \E base \in MapChildrenOf(g) : \E child \in MapChildrenOf(base) :
          /\ heap[base].required_fields # <<>>
          /\ heap[child].required_fields # <<>>

\* the parent type of the routed field is a value type or an abstract type
ValueTypeLike ==
    \/ IsAbstractType(RouteType)
    \/ get_federation_metadata_for_type(RouteType) = "value"

\* C18: a subfield whose parent type is marked a value type, or is an
\* interface or union with or without federation metadata, is routed to the
\* parent group: base and owning service are the parent group's service,
\* whatever get_base_service and get_owning_service would answer.
C18_ValueTypeLikeStaysInParent ==
    (RouteDone /\ ValueTypeLike) => RoutedToParent

\* the field is an extension field whose required fields the parent group
\* does not all provide
NeedsRequiredFields ==
    /\ RouteDone
    /\ ~ValueTypeLike
    /\ RouteBase # None /\ RouteOwning # None
    /\ RouteOwning # RouteBase
    /\ ~AllProvided(RouteRequired, wrap.parent.provided_fields)

\* group child is the entry of group g's map for the service, with the
\* required fields and the merge_at given
IsDependentOf(child, g, service_name, required_fields) ==
    /\ child \in 1..Len(heap)
    /\ \E i \in 1..Len(heap[g].by_service) :
          heap[g].by_service[i] = [service |-> service_name, group |-> child]
    /\ heap[child].service_name = service_name
    /\ heap[child].required_fields = required_fields
    /\ heap[child].merge_at = wrap.parent.merge_at

\* C19: a subfield owned by another service than the base service of its
\* parent type, with a required field the parent group does not provide,
\* goes to the parent group's dependent group on the owning service, which
\* carries the field's required fields, whenever the base service is the
\* parent group's service: whatever the key fields of the type are.
C19_DependentOnOwning ==
    (NeedsRequiredFields /\ RouteBase = wrap.parent.service_name) =>
        /\ wrap.err = "none"
        /\ IsDependentOf(wrap.group, 1, RouteOwning, RouteRequired)
        /\ heap[wrap.group].fields = <<RouteField>>

\* the key fields of the parent type in the parent group's service
RouteKeys == get_key_fields(RouteType, wrap.parent.service_name)

RECURSIVE CollectedOnce(_, _, _)
CollectedOnce(scope, selections, got) ==
    IF selections = <<>>
    THEN got
    ELSE LET selection == Head(selections)
             inner_scope ==
                 new_scope_in(IF selection.kind = "InlineFragment"
                              THEN selection.on
                              ELSE Fragments(selection.name).on,
                              scope)
         IN IF selection.kind = "Field"
            THEN CollectedOnce(scope, Tail(selections),
                     [got EXCEPT !.fields = Append(@,
                         Field(scope, selection,
                               FieldDef(scope.parent_type, selection.name)))])
            ELSE IF inner_scope.possible_types = {}
            THEN CollectedOnce(scope, Tail(selections), got)
            ELSE IF selection.kind = "InlineFragment"
            THEN CollectedOnce(scope, Tail(selections),
                               CollectedOnce(inner_scope, selection.sel, got))
            ELSE IF selection.name \in got.seen
            THEN CollectedOnce(scope, Tail(selections), got)
            ELSE CollectedOnce(scope, Tail(selections),
                     CollectedOnce(inner_scope, Fragments(selection.name).sel,
                                   [got EXCEPT !.seen = @ \cup {selection.name}]))

\* the selections of the pass hold a spread of a named fragment
RECURSIVE HasSpread(_)
HasSpread(selections) ==
    \E i \in 1..Len(selections) :
        \/ selections[i].kind = "FragmentSpread"
        \/ selections[i].kind = "InlineFragment" /\ HasSpread(selections[i].sel)

\* C21: in one collect_fields pass the fields of a named fragment are
\* collected at its first spread whose type condition intersects the scope,
\* which marks the name visited; later spreads of the name add nothing, a
\* spread with an empty intersection is skipped and not marked, and the pass
\* does not fail on a name that was not visited before.
C21_FragmentsCollectedOnce ==
    (CollectDone /\ HasSpread(wrap.selections)) =>
        LET want == CollectedOnce(new_scope(wrap.parent_type), wrap.selections,
                                  [fields |-> <<>>, seen |-> {}])
        IN /\ wrap.out.err = "none"
           /\ wrap.out.fields = want.fields
           /\ DOMAIN wrap.out.visited = want.seen

\* the experiment on complete_field with the field "peers" has run
FragmentDone ==
    wrap.phase = "out" /\ wrap.exp = "complete_field" /\ wrap.err = "none"

\* the selection set complete_field gave "peers" is one spread of an internal fragment
SpreadGiven ==
    LET sel == wrap.out.field_node.sel
    IN Len(sel) = 1 /\ sel[1].kind = "FragmentSpread"

\* the fragments the calls made so far have returned
Returned(i) == wrap.calls[i].fragment

RuntimeDone == wrap.phase = "out" /\ wrap.exp = "split_fields" /\ wrap.err = "none"

\* the field of that experiment as it stands on the runtime type t
OnRuntimeType(t) ==
    Field(new_scope_in(t, wrap.field.scope), wrap.field.field_node,
          FieldDef(t, wrap.field.field_def.name))

\* no runtime type's definition of the field carries federation metadata
NoExtending ==
    \A t \in wrap.field.scope.possible_types :
        get_federation_metadata_for_field(FieldDef(t, wrap.field.field_def.name)) = None

\* the fields of group g that answer to the response name of the field
Completed(g) ==
    SelectSeq(heap[g].fields,
              LAMBDA x : get_response_name(x.field_node) = get_response_name(wrap.field.field_node))

\* the runtime types, in loop order, whose call of group_for_field returned g
TypesOf(g) ==
    SelectSeq(RuntimeTypes(wrap.field.scope),
              LAMBDA t : \E k \in 1..Len(wrap.calls) :
                            /\ wrap.calls[k].field.scope.parent_type = t
                            /\ wrap.calls[k].group = g)

\* C23: For a bucket whose parent type is abstract: when no runtime type's
\* field definition carries federation metadata, group_for_field is called
\* once, with the field itself, and exactly one completed field is appended,
\* to the group it returned; otherwise group_for_field is called once per
\* possible runtime type, and for each runtime type exactly one completed
\* field, carrying that type's field definition, is appended to the group
\* returned for that type.
C23_OnePerRuntimeType ==
    RuntimeDone =>
        LET types == RuntimeTypes(wrap.field.scope)
        IN IF NoExtending
           THEN /\ Len(wrap.calls) = 1
                /\ wrap.calls[1].field = wrap.field
                /\ \A g \in 1..Len(heap) :
                      Completed(g) = IF g = wrap.calls[1].group THEN <<wrap.field>> ELSE <<>>
           ELSE /\ Len(wrap.calls) = Len(types)
                /\ \A k \in 1..Len(types) : wrap.calls[k].field = OnRuntimeType(types[k])
                /\ \A g \in 1..Len(heap) :
                      Completed(g) = [i \in 1..Len(TypesOf(g)) |-> OnRuntimeType(TypesOf(g)[i])]

\* T.name and S.name went to two different groups
C23_Witness ==
    /\ RuntimeDone
    /\ ~NoExtending
    /\ Len(wrap.calls) = 2
    /\ wrap.calls[1].group # wrap.calls[2].group
    /\ Completed(wrap.calls[1].group) = <<OnRuntimeType("T")>>
    /\ Completed(wrap.calls[2].group) = <<OnRuntimeType("S")>>

\* a step that is one call of dependent_group_for_service on group 1
IsCall == wrap.phase = "calls" /\ Len(wrap'.calls) = Len(wrap.calls) + 1

\* the group the call of this step returned
ReturnedChild == wrap'.calls[Len(wrap'.calls)].group

\* C24: A call of dependent_group_for_service changes only the group it is
\* called on (its service-keyed map and its fields) and the child it returns:
\* every other group is as before, and every list a caller holds, passed as
\* required_fields in this call or in an earlier one, has the contents it had.
C24_FrameEffect ==
    [][IsCall =>
          /\ wrap'.lists = wrap.lists
          /\ \A g \in 1..Len(heap) :
                (g # 1 /\ g # ReturnedChild) => heap'[g] = heap[g]
          /\ heap'[1] = [heap[1] EXCEPT !.by_service = heap'[1].by_service,
                                        !.fields = heap'[1].fields]]_vars

\* the Fetch nodes under a plan node, in the order of the plan
RECURSIVE FetchNodes(_)
FetchNodes(n) ==
    CASE n.kind = "Fetch" -> <<n>>
      [] n.kind = "Flatten" -> FetchNodes(n.node)
      [] n.kind \in {"Parallel", "Sequence"} ->
            Concat([i \in 1..Len(n.nodes) |-> FetchNodes(n.nodes[i])])
      [] OTHER -> <<>>

\* the groups emission goes through from group g: g, then its dependent
\* groups, each with its own
RECURSIVE GroupsUnder(_)
GroupsUnder(g) ==
    <<g>> \o Concat([i \in 1..Len(dependent_groups(heap, g)) |->
                        GroupsUnder(dependent_groups(heap, g)[i])])

EmittedGroups == Concat([i \in 1..Len(roots) |-> GroupsUnder(roots[i])])

\* how often group g is gone through
TimesEmitted(g) == Len(SelectSeq(EmittedGroups, LAMBDA e : e = g))

\* C25: every group made by dependent_group_for_service during planning is
\* emitted as exactly one Fetch node of the plan: going from the root groups
\* through the dependent groups, hoisted ones included, meets every such
\* group exactly once, at no depth under two groups or twice under one, and
\* the Fetch nodes of the plan are the fetch nodes of the groups met, in order.
C25_EveryDependentEmittedOnce ==
    (pc = "done" /\ result.status = "plan") =>
        /\ \A d \in MapChildren : TimesEmitted(d) = 1
        /\ \A i \in 1..Len(roots) : TimesEmitted(roots[i]) = 1
        /\ FetchNodes(result.node) =
              [i \in 1..Len(EmittedGroups) |->
                  fetch_node_for_group(heap, EmittedGroups[i],
                                       IF EmittedGroups[i] \in {roots[j] : j \in 1..Len(roots)}
                                       THEN RootTypeOf(operation.kind)
                                       ELSE None,
                                       operation.kind)]

\* a dependent group made under the sub-group of a sub-group and hoisted twice,
\* into the root group, next to a dependent group of the root's own
C25_Witness ==
    /\ pc = "done" /\ result.status = "plan"
    /\ \E d \in MapChildren, s1, s2 \in 1..Len(heap) :
          /\ s1 # s2 /\ s1 # roots[1] /\ s2 # roots[1]
          /\ d \in MapChildrenOf(s2)
          /\ \E i \in 1..Len(heap[s1].other_dependent_groups) :
                heap[s1].other_dependent_groups[i] = d
          /\ \E i \in 1..Len(heap[roots[1]].other_dependent_groups) :
                heap[roots[1]].other_dependent_groups[i] = d
          /\ TimesEmitted(d) = 1
    /\ Len(FetchNodes(result.node)) >= 2

====
